---- MODULE Spec2Model ----
(***************************************************************************)
(* Model of src/src/index.js: the `run` function of the Cortex Code Review *)
(* GitHub action.  One run handles one inbound event.  The run is a chain  *)
(* of awaited calls inside one try block with one catch handler; the model *)
(* has one action per awaited call (the synchronous code up to the next    *)
(* await belongs to the same action).  Every awaited external call either  *)
(* returns or throws; which one is the environment's choice.  The set-up   *)
(* of lines 6-11 (token, Octokit client, inputs) is taken to succeed.      *)
(*                                                                         *)
(* Strings that the code inspects (the comment body) are sequences of      *)
(* one-character strings.  Objects are records; a field that is absent in  *)
(* the object is absent from the record's DOMAIN.                          *)
(***************************************************************************)
EXTENDS Integers, Sequences, FiniteSets, TLC

(***************************************************************************)
(* Bounds of the model.                                                    *)
(***************************************************************************)
\* Number of files one page of the pull-request file listing holds.
PageSize == 2
\* Largest number of files changed by a pull request.
MaxFiles == 3
\* Largest number of issues in a backend result.
MaxIssues == 2

(***************************************************************************)
(* Values.                                                                 *)
(***************************************************************************)
\* `let triggerType; let branch;` : declared, not yet assigned.
Undefined == "undefined"
\* `let prNumber;` : declared, not yet assigned (pull-request numbers are >= 1).
UndefinedNumber == 0
\* No error has been thrown.
NoError == <<>>

WhiteSpace == {" ", "\t", "\n"}
UpperChars == <<"A","B","C","D","E","F","G","H","I","J","K","L","M",
                "N","O","P","Q","R","S","T","U","V","W","X","Y","Z">>
LowerChars == <<"a","b","c","d","e","f","g","h","i","j","k","l","m",
                "n","o","p","q","r","s","t","u","v","w","x","y","z">>

\* '/cortex code review'
TriggerPhrase == <<"/","c","o","r","t","e","x"," ","c","o","d","e"," ",
                   "r","e","v","i","e","w">>

(***************************************************************************)
(* String functions of the JavaScript runtime used by the classifier.      *)
(***************************************************************************)
\* String.prototype.toLowerCase, one character.
ToLowerChar(c) ==
    IF \E i \in 1..Len(UpperChars) : UpperChars[i] = c
    THEN LowerChars[CHOOSE i \in 1..Len(UpperChars) : UpperChars[i] = c]
    ELSE c

\* String.prototype.toLowerCase
ToLowerCase(s) == [i \in 1..Len(s) |-> ToLowerChar(s[i])]

\* String.prototype.trim : drops leading and trailing white space only.
Trim(s) ==
    LET nonWs == {i \in 1..Len(s) : s[i] \notin WhiteSpace}
    IN  IF nonWs = {} THEN <<>>
        ELSE LET lo == CHOOSE i \in nonWs : \A j \in nonWs : i <= j
                 hi == CHOOSE i \in nonWs : \A j \in nonWs : j <= i
             IN  SubSeq(s, lo, hi)

\* String.prototype.includes
Includes(s, t) ==
    \E k \in 0..(Len(s) - Len(t)) : \A i \in 1..Len(t) : s[k + i] = t[i]

(***************************************************************************)
(* Inbound events.                                                         *)
(***************************************************************************)
PullRequestActions == {"opened", "closed", "edited"}
IssueCommentActions == {"created", "deleted"}

\* Comment bodies: the phrase alone, padded with white space, in mixed case,
\* inside a sentence, with the phrase broken by a second blank, and without it.
CommentBodies ==
    { TriggerPhrase,
      <<" ", "\n">> \o TriggerPhrase \o <<" ", "\t">>,
      <<"/","C","o","r","t","e","x"," ","C","O","D","E"," ",
        "R","e","v","i","e","w">>,
      <<"p","l","s"," ">> \o TriggerPhrase \o <<"!">>,
      <<"/","c","o","r","t","e","x"," "," ","c","o","d","e"," ",
        "r","e","v","i","e","w">>,
      <<"L","G","T","M">>,
      <<>> }

\* context.payload of a pull_request event.
PullRequestPayloads ==
    { [pull_request |-> [number |-> 7, head |-> [ref |-> "feature"], merged |-> m]] :
        m \in BOOLEAN }

\* context.payload of an issue_comment event; the issue carries a pull_request
\* object exactly when it is a pull request.
IssueCommentPayloads ==
    { [comment |-> [body |-> b], issue |-> [number |-> 12, pull_request |-> [url |-> "pulls/12"]]] :
        b \in CommentBodies }
    \cup
    { [comment |-> [body |-> b], issue |-> [number |-> 12]] : b \in CommentBodies }

\* Events the action does not handle, with any action and any payload.
OtherEventNames == {"push", "pull_request_review"}
OtherActions == {Undefined, "opened", "closed", "created"}
OtherPayloads ==
    { [ref |-> "refs/heads/main"] }
    \cup PullRequestPayloads
    \cup { p \in IssueCommentPayloads : p.comment.body = TriggerPhrase }

Events ==
    { [eventName |-> "pull_request", action |-> a, payload |-> p] :
        a \in PullRequestActions, p \in PullRequestPayloads }
    \cup
    { [eventName |-> "issue_comment", action |-> a, payload |-> p] :
        a \in IssueCommentActions, p \in IssueCommentPayloads }
    \cup
    { [eventName |-> n, action |-> a, payload |-> p] :
        n \in OtherEventNames, a \in OtherActions, p \in OtherPayloads }

(***************************************************************************)
(* The environment: what the GitHub API and the backend answer.            *)
(***************************************************************************)
\* How an awaited Octokit call can reject: RequestError with the HTTP status text.
ApiErrors == {"Not Found", "Server Error"}
\* How core.summary.write() can reject.
SummaryErrors == {"Unable to access summary file"}
\* How fetch(), response.text() and response.json() can reject.
FetchErrors == {"fetch failed"}
BodyErrors == {"Unexpected end of JSON input"}

\* An object without fields.
EmptyObject == [x \in {} |-> TRUE]
\* A local that has not been assigned an object yet.
UndefinedObject == [undefined |-> TRUE]

\* Object spread: the fields of f, overridden and extended by those of g.
Merge(f, g) ==
    [x \in (DOMAIN f) \cup (DOMAIN g) |-> IF x \in DOMAIN g THEN g[x] ELSE f[x]]

\* The i-th file of a pull request as the files API describes it; every second
\* file is binary and has no patch.
PrFile(i) ==
    LET base == [sha |-> i, filename |-> i, status |-> "modified",
                 additions |-> i, deletions |-> 0]
    IN  IF i % 2 = 1 THEN Merge(base, [patch |-> "@@"]) ELSE base

\* The files of a pull request that changed n files, in the API's order.
PrFiles(n) == [i \in 1..n |-> PrFile(i)]

\* data of GET /users/{actor}
ActorData ==
    [login |-> "octocat", name |-> "The Octocat", email |-> "o@cat",
     avatar_url |-> "a/octocat", html_url |-> "u/octocat", company |-> "GitHub"]

\* data of GET /repos/{owner}/{repo}
RepoData ==
    [name |-> "repo", full_name |-> "acme/repo", description |-> "d",
     private |-> FALSE, default_branch |-> "main", language |-> "js",
     stargazers_count |-> 1, forks_count |-> 0, created_at |-> "2020"]

\* data of GET /orgs/{owner}
OrgData ==
    [login |-> "acme", name |-> "Acme", email |-> "o@acme", avatar_url |-> "a/acme",
     html_url |-> "u/acme", description |-> "org", location |-> "x", blog |-> "b",
     public_repos |-> 3, created_at |-> "2019"]

\* data of GET /users/{owner}
UserData ==
    [login |-> "acme", name |-> "A. Cme", email |-> "a@cme", avatar_url |-> "a/acme",
     html_url |-> "u/acme", company |-> "c", blog |-> "b", location |-> "x",
     bio |-> "bio", public_repos |-> 3, created_at |-> "2019"]

\* data of GET /repos/{owner}/{repo}/pulls/{n}
PullData == [number |-> 12, head |-> [ref |-> "feature"]]

\* Issues a backend result can list.
Issues ==
    { [rule_id |-> "R1", message |-> "m", severity |-> "warning",
       filename |-> "a.js", line |-> 5],
      [rule_id |-> "R2", message |-> "n", severity |-> "error",
       filename |-> "b.js", line |-> 9] }

SeqsUpTo(S, n) == UNION { [1..k -> S] : k \in 0..n }

\* The parts of a backend result; any field may be absent.
LinkParts ==
    { EmptyObject, [scan_url |-> "https://backend/scan/1"], [scan_id |-> "s1"],
      [scan_url |-> "https://backend/scan/1", scan_id |-> "s1"] }
CountParts ==
    { EmptyObject,
      [critical |-> 1, warnings |-> 2, suggestions |-> 0, passed |-> 10],
      [warnings |-> 2, passed |-> 10],
      [critical |-> 1, suggestions |-> 0] }
IssueParts ==
    { EmptyObject } \cup { [issues |-> s] : s \in SeqsUpTo(Issues, MaxIssues) }

\* The ScanResult objects response.json() can yield.
Results ==
    { Merge(Merge(l, c), i) : l \in LinkParts, c \in CountParts, i \in IssueParts }

\* The responses fetch() can resolve to.
Responses ==
    { [ok |-> TRUE, status |-> 200, body |-> "json"],
      [ok |-> FALSE, status |-> 500, body |-> "server error"],
      [ok |-> FALSE, status |-> 404, body |-> "no such route"] }


(***************************************************************************)
(* State.                                                                  *)
(***************************************************************************)
VARIABLES
    \* the inbound event and the configuration (read, never written)
    eventName, action, payload, consoleUrl,
    \* the files the pull request changed, as the files API holds them
    prFiles,
    \* position of the run: the await it is about to make
    pc,
    \* locals of run()
    triggerType, prNumber, branch, changedFiles, triggerUser, repoData,
    ownerDetails, response, result, fullConsoleUrl,
    \* the error caught by the catch clause (a message, as a sequence of parts)
    error,
    \* every external call made so far, in order, with how it ended
    calls,
    \* the sections written to the job summary, in order
    summary,
    \* the bodies of the requests sent to the backend, in order
    requests,
    \* the SARIF reports handed to codeScanning.uploadSarif, in order
    uploads,
    \* the message given to core.setFailed (NoError: not called)
    failedWith,
    \* the reason run()'s promise rejected with (NoError: it did not)
    unhandled

inputs == <<eventName, action, payload, consoleUrl, prFiles>>
locals == <<triggerType, prNumber, branch, changedFiles, triggerUser, repoData,
            ownerDetails, response, result, fullConsoleUrl>>
outputs == <<calls, summary, requests, uploads, failedWith, unhandled>>
vars == <<inputs, pc, locals, error, outputs>>

\* The configured console-url input: not set, or set.
ConsoleUrls == {"", "https://my.console"}

Init ==
    /\ \E e \in Events :
          /\ eventName = e.eventName
          /\ action = e.action
          /\ payload = e.payload
    /\ consoleUrl \in ConsoleUrls
    /\ \E n \in 0..MaxFiles : prFiles = PrFiles(n)
    /\ pc = "start"
    /\ triggerType = Undefined
    /\ prNumber = UndefinedNumber
    /\ branch = Undefined
    /\ changedFiles = <<>>
    /\ triggerUser = UndefinedObject
    /\ repoData = UndefinedObject
    /\ ownerDetails = UndefinedObject
    /\ response = UndefinedObject
    /\ result = UndefinedObject
    /\ fullConsoleUrl = <<>>
    /\ error = NoError
    /\ calls = <<>>
    /\ summary = <<>>
    /\ requests = <<>>
    /\ uploads = <<>>
    /\ failedWith = NoError
    /\ unhandled = NoError

\* One external call, with how it ended ("ok" or the error it rejected with).
Call(api, outcome) == [api |-> api, outcome |-> outcome]

(***************************************************************************)
(* Event classifier (lines 13-58).                                         *)
(***************************************************************************)
\* Faulty variant of IsPrOpened: tests the payload instead of the event name.
IsPrOpenedAnyEvent == action = "opened" /\ "pull_request" \in DOMAIN payload

\* eventName === 'pull_request' && action === 'opened'
IsPrOpened == eventName = "pull_request" /\ action = "opened"

\* Faulty variant of IsPrMerged: the merged flag is not tested.
IsPrClosed == eventName = "pull_request" /\ action = "closed"

\* eventName === 'pull_request' && action === 'closed' && payload.pull_request.merged
IsPrMerged ==
    /\ eventName = "pull_request"
    /\ action = "closed"
    /\ payload.pull_request.merged

\* eventName === 'issue_comment' && action === 'created'
IsCommentCreated == eventName = "issue_comment" /\ action = "created"

\* Faulty variant of MatchesTrigger: only the command word is looked for.
MatchesCommandWord(body) ==
    Includes(ToLowerCase(Trim(body)), SubSeq(TriggerPhrase, 1, 7))

\* Faulty variant of MatchesTrigger: the body is not lower-cased.
MatchesTriggerCaseSensitive(body) == Includes(Trim(body), TriggerPhrase)

\* comment.toLowerCase().includes('/cortex code review'), comment the trimmed body
MatchesTrigger(body) == Includes(ToLowerCase(Trim(body)), TriggerPhrase)

\* Faulty variant of IsOnPullRequest: tests the issue, not its pull_request marker.
IsAnIssue(issue) == "number" \in DOMAIN issue

\* context.payload.issue.pull_request is truthy
IsOnPullRequest(issue) == "pull_request" \in DOMAIN issue

\* The classifier: assigns triggerType, prNumber and (for pull_request events)
\* branch, or returns from run() without doing anything.
Classify ==
    /\ pc = "start"
    /\ IF IsPrOpened
       THEN /\ triggerType' = "pr_opened"
            /\ prNumber' = payload.pull_request.number
            /\ branch' = payload.pull_request.head.ref
            /\ pc' = "list_files"
       ELSE IF IsPrMerged
       THEN /\ triggerType' = "pr_merged"
            /\ prNumber' = payload.pull_request.number
            /\ branch' = payload.pull_request.head.ref
            /\ pc' = "list_files"
       ELSE IF IsCommentCreated
       THEN IF ~MatchesTrigger(payload.comment.body)
            THEN /\ pc' = "done"
                 /\ UNCHANGED <<triggerType, prNumber, branch>>
            ELSE IF ~IsOnPullRequest(payload.issue)
            THEN /\ pc' = "done"
                 /\ UNCHANGED <<triggerType, prNumber, branch>>
            ELSE /\ triggerType' = "manual_comment"
                 /\ prNumber' = payload.issue.number
                 /\ branch' = branch
                 /\ pc' = "pulls_get"
       ELSE /\ pc' = "done"
            /\ UNCHANGED <<triggerType, prNumber, branch>>
    /\ UNCHANGED <<inputs, changedFiles, triggerUser, repoData, ownerDetails,
                   response, result, fullConsoleUrl, error, outputs>>


(***************************************************************************)
(* Control flow of the try block: a rejected await is thrown to the catch  *)
(* clause of line 266.                                                     *)
(***************************************************************************)
Throw(message) ==
    /\ error' = message
    /\ pc' = "catch"

(***************************************************************************)
(* Context fetcher (lines 48-123).                                         *)
(***************************************************************************)
\* Faulty variant of PullsGet: the head branch of the answer is not assigned.
PullsGetKeepingBranch ==
    /\ pc = "pulls_get"
    /\ \E o \in {"ok"} \cup ApiErrors :
          /\ calls' = Append(calls, Call("pulls.get", o))
          /\ IF o = "ok"
             THEN /\ pc' = "list_files"
                  /\ error' = error
             ELSE Throw(<<o>>)
    /\ UNCHANGED <<inputs, locals, summary, requests, uploads, failedWith, unhandled>>

\* octokit.rest.pulls.get, for manual_comment only: reads the head branch.
PullsGet ==
    /\ pc = "pulls_get"
    /\ \E o \in {"ok"} \cup ApiErrors :
          /\ calls' = Append(calls, Call("pulls.get", o))
          /\ IF o = "ok"
             THEN /\ branch' = PullData.head.ref
                  /\ pc' = "list_files"
                  /\ error' = error
             ELSE /\ Throw(<<o>>)
                  /\ branch' = branch
    /\ UNCHANGED <<inputs, triggerType, prNumber, changedFiles, triggerUser, repoData,
                   ownerDetails, response, result, fullConsoleUrl,
                   summary, requests, uploads, failedWith, unhandled>>

\* What one call of octokit.rest.pulls.listFiles returns for a pull request
\* whose files are `all`: the first page of the listing.  The call passes no
\* page and no per_page, and is not wrapped in octokit.paginate.
ListFilesData(all) ==
    SubSeq(all, 1, IF Len(all) < PageSize THEN Len(all) ELSE PageSize)

\* f => ({filename, status, additions, deletions, patch}): patch is undefined,
\* and so left out of the JSON body, when the file has none.
ChangedFile(f) ==
    LET shape == [filename |-> f.filename, status |-> f.status,
                  additions |-> f.additions, deletions |-> f.deletions]
    IN  IF "patch" \in DOMAIN f THEN Merge(shape, [patch |-> f.patch]) ELSE shape

\* files.map(...)
MapChangedFiles(files) == [i \in 1..Len(files) |-> ChangedFile(files[i])]

ListFiles ==
    /\ pc = "list_files"
    /\ \E o \in {"ok"} \cup ApiErrors :
          /\ calls' = Append(calls, Call("pulls.listFiles", o))
          /\ IF o = "ok"
             THEN /\ changedFiles' = MapChangedFiles(ListFilesData(prFiles))
                  /\ pc' = "get_actor"
                  /\ error' = error
             ELSE /\ Throw(<<o>>)
                  /\ changedFiles' = changedFiles
    /\ UNCHANGED <<inputs, triggerType, prNumber, branch, triggerUser, repoData,
                   ownerDetails, response, result, fullConsoleUrl,
                   summary, requests, uploads, failedWith, unhandled>>

\* octokit.rest.users.getByUsername({username: context.actor})
GetActor ==
    /\ pc = "get_actor"
    /\ \E o \in {"ok"} \cup ApiErrors :
          /\ calls' = Append(calls, Call("users.getByUsername(actor)", o))
          /\ IF o = "ok"
             THEN /\ triggerUser' = ActorData
                  /\ pc' = "get_repo"
                  /\ error' = error
             ELSE /\ Throw(<<o>>)
                  /\ triggerUser' = triggerUser
    /\ UNCHANGED <<inputs, triggerType, prNumber, branch, changedFiles, repoData,
                   ownerDetails, response, result, fullConsoleUrl,
                   summary, requests, uploads, failedWith, unhandled>>

\* octokit.rest.repos.get
GetRepo ==
    /\ pc = "get_repo"
    /\ \E o \in {"ok"} \cup ApiErrors :
          /\ calls' = Append(calls, Call("repos.get", o))
          /\ IF o = "ok"
             THEN /\ repoData' = RepoData
                  /\ pc' = "get_org"
                  /\ error' = error
             ELSE /\ Throw(<<o>>)
                  /\ repoData' = repoData
    /\ UNCHANGED <<inputs, triggerType, prNumber, branch, changedFiles, triggerUser,
                   ownerDetails, response, result, fullConsoleUrl,
                   summary, requests, uploads, failedWith, unhandled>>

\* ownerDetails of the try branch (lines 92-104)
OrgOwnerDetails(orgData) ==
    [type |-> "organization", login |-> orgData.login, name |-> orgData.name,
     email |-> orgData.email, avatar_url |-> orgData.avatar_url,
     profile_url |-> orgData.html_url, description |-> orgData.description,
     location |-> orgData.location, blog |-> orgData.blog,
     public_repos |-> orgData.public_repos, created_at |-> orgData.created_at]

\* Faulty variant of UserOwnerDetails: the organization's description field is
\* copied into the user's profile as well.
UserOwnerDetailsWithDescription(userData) ==
    [type |-> "user", login |-> userData.login, name |-> userData.name,
     email |-> userData.email, avatar_url |-> userData.avatar_url,
     profile_url |-> userData.html_url, company |-> userData.company,
     description |-> userData.bio,
     blog |-> userData.blog, location |-> userData.location, bio |-> userData.bio,
     public_repos |-> userData.public_repos, created_at |-> userData.created_at]

\* ownerDetails of the catch branch (lines 109-122)
UserOwnerDetails(userData) ==
    [type |-> "user", login |-> userData.login, name |-> userData.name,
     email |-> userData.email, avatar_url |-> userData.avatar_url,
     profile_url |-> userData.html_url, company |-> userData.company,
     blog |-> userData.blog, location |-> userData.location, bio |-> userData.bio,
     public_repos |-> userData.public_repos, created_at |-> userData.created_at]

\* octokit.rest.orgs.get inside the inner try (lines 88-105).  `catch (e)` does
\* not inspect e: whatever the rejection, the run goes on to the user lookup.
GetOrg ==
    /\ pc = "get_org"
    /\ \E o \in {"ok"} \cup ApiErrors :
          /\ calls' = Append(calls, Call("orgs.get", o))
          /\ IF o = "ok"
             THEN /\ ownerDetails' = OrgOwnerDetails(OrgData)
                  /\ pc' = "write_submitted"
                  /\ error' = error
             ELSE /\ pc' = "get_owner_user"
                  /\ UNCHANGED <<ownerDetails, error>>
    /\ UNCHANGED <<inputs, triggerType, prNumber, branch, changedFiles, triggerUser,
                   repoData, response, result, fullConsoleUrl,
                   summary, requests, uploads, failedWith, unhandled>>

\* octokit.rest.users.getByUsername({username: context.repo.owner}) in the
\* inner catch clause (lines 106-122)
GetOwnerUser ==
    /\ pc = "get_owner_user"
    /\ \E o \in {"ok"} \cup ApiErrors :
          /\ calls' = Append(calls, Call("users.getByUsername(owner)", o))
          /\ IF o = "ok"
             THEN /\ ownerDetails' = UserOwnerDetails(UserData)
                  /\ pc' = "write_submitted"
                  /\ error' = error
             ELSE /\ Throw(<<o>>)
                  /\ ownerDetails' = ownerDetails
    /\ UNCHANGED <<inputs, triggerType, prNumber, branch, changedFiles, triggerUser,
                   repoData, response, result, fullConsoleUrl,
                   summary, requests, uploads, failedWith, unhandled>>


(***************************************************************************)
(* Job summary, first phase (lines 125-140).  Each chain                   *)
(* core.summary.add...().write() is one write of the section it builds.    *)
(***************************************************************************)
\* a || b on strings: b when a is null, undefined or empty.
OrElse(obj, field, other) ==
    IF field \in DOMAIN obj /\ obj[field] # "" THEN obj[field] ELSE other

\* The rows of the first table of both summaries (lines 128-137, 241-250).
ContextRows ==
    [repository |-> repoData.full_name,
     branch |-> branch,
     pr |-> prNumber,
     triggered_by |-> <<OrElse(triggerUser, "name", triggerUser.login),
                        OrElse(triggerUser, "email", "email not public")>>,
     owner |-> <<OrElse(ownerDetails, "name", ownerDetails.login), ownerDetails.type>>,
     files_changed |-> Len(changedFiles),
     trigger |-> triggerType]

SubmittedSection == Merge([kind |-> "submitted"], ContextRows)

WriteSubmitted ==
    /\ pc = "write_submitted"
    /\ \E o \in {"ok"} \cup SummaryErrors :
          /\ calls' = Append(calls, Call("summary.write(submitted)", o))
          /\ IF o = "ok"
             THEN /\ summary' = Append(summary, SubmittedSection)
                  /\ pc' = "fetch"
                  /\ error' = error
             ELSE /\ Throw(<<o>>)
                  /\ summary' = summary
    /\ UNCHANGED <<inputs, locals, requests, uploads, failedWith, unhandled>>

(***************************************************************************)
(* Backend invoker (lines 142-186).                                        *)
(***************************************************************************)
\* The JSON body of the request (lines 148-178); the secrets and the commit
\* are the same in every run and left out.
RequestBody ==
    [trigger_type |-> triggerType,
     provider |-> "github",
     repository |-> "acme/repo",
     branch |-> branch,
     pr_number |-> ToString(prNumber),
     changed_files |-> changedFiles,
     triggered_by |-> [login |-> triggerUser.login, name |-> triggerUser.name,
                       email |-> triggerUser.email,
                       avatar_url |-> triggerUser.avatar_url,
                       profile_url |-> triggerUser.html_url,
                       company |-> triggerUser.company],
     repo |-> [name |-> repoData.name, full_name |-> repoData.full_name,
               description |-> repoData.description, private |-> repoData.private,
               default_branch |-> repoData.default_branch,
               language |-> repoData.language, stars |-> repoData.stargazers_count,
               forks |-> repoData.forks_count, created_at |-> repoData.created_at],
     owner |-> ownerDetails]

\* Faulty variant of Fetch: a rejected fetch is tried once more.
FetchRetrying ==
    /\ pc = "fetch"
    /\ requests' = Append(requests, RequestBody)
    /\ \/ \E e \in FetchErrors :
             /\ calls' = Append(calls, Call("fetch", e))
             /\ IF Len(requests) = 0
                THEN UNCHANGED <<pc, error>>
                ELSE Throw(<<e>>)
             /\ response' = response
       \/ \E r \in Responses :
             /\ calls' = Append(calls, Call("fetch", "ok"))
             /\ response' = r
             /\ pc' = IF r.ok THEN "response_json" ELSE "response_text"
             /\ error' = error
    /\ UNCHANGED <<inputs, triggerType, prNumber, branch, changedFiles, triggerUser,
                   repoData, ownerDetails, result, fullConsoleUrl,
                   summary, uploads, failedWith, unhandled>>

\* Faulty variant of Fetch: response.ok is not tested.
FetchIgnoringStatus ==
    /\ pc = "fetch"
    /\ requests' = Append(requests, RequestBody)
    /\ \/ \E e \in FetchErrors :
             /\ calls' = Append(calls, Call("fetch", e))
             /\ Throw(<<e>>)
             /\ response' = response
       \/ \E r \in Responses :
             /\ calls' = Append(calls, Call("fetch", "ok"))
             /\ response' = r
             /\ pc' = "response_json"
             /\ error' = error
    /\ UNCHANGED <<inputs, triggerType, prNumber, branch, changedFiles, triggerUser,
                   repoData, ownerDetails, result, fullConsoleUrl,
                   summary, uploads, failedWith, unhandled>>

\* await fetch(backendUrl, ...): rejects, or resolves to a response of any status.
Fetch ==
    /\ pc = "fetch"
    /\ requests' = Append(requests, RequestBody)
    /\ \/ \E e \in FetchErrors :
             /\ calls' = Append(calls, Call("fetch", e))
             /\ Throw(<<e>>)
             /\ response' = response
       \/ \E r \in Responses :
             /\ calls' = Append(calls, Call("fetch", "ok"))
             /\ response' = r
             /\ pc' = IF r.ok THEN "response_json" ELSE "response_text"
             /\ error' = error
    /\ UNCHANGED <<inputs, triggerType, prNumber, branch, changedFiles, triggerUser,
                   repoData, ownerDetails, result, fullConsoleUrl,
                   summary, uploads, failedWith, unhandled>>

\* `Backend responded with ${response.status}: ${errorText}`
BackendErrorMessage(status, errorText) ==
    <<"Backend responded with ", ToString(status), ": ", errorText>>

\* !response.ok: await response.text(), then throw (lines 181-184)
ResponseText ==
    /\ pc = "response_text"
    /\ \/ \E e \in BodyErrors :
             /\ calls' = Append(calls, Call("response.text", e))
             /\ Throw(<<e>>)
       \/ /\ calls' = Append(calls, Call("response.text", "ok"))
          /\ Throw(BackendErrorMessage(response.status, response.body))
    /\ UNCHANGED <<inputs, locals, summary, requests, uploads, failedWith, unhandled>>


(***************************************************************************)
(* Result renderer (lines 186-264).                                        *)
(***************************************************************************)
\* consoleUrl || 'https://console.pervaziv.com'
ConsoleBase == IF consoleUrl # "" THEN consoleUrl ELSE "https://console.pervaziv.com"

\* Faulty variant of ConsoleLink: the scan id is preferred to the scan URL.
ConsoleLinkPreferringId(res) ==
    IF "scan_id" \in DOMAIN res /\ res.scan_id # ""
    THEN <<ConsoleBase, "/scans/", res.scan_id>>
    ELSE IF "scan_url" \in DOMAIN res /\ res.scan_url # ""
    THEN <<res.scan_url>>
    ELSE <<ConsoleBase>>

\* Lines 189-194; a URL is the sequence of the parts concatenated.
ConsoleLink(res) ==
    IF "scan_url" \in DOMAIN res /\ res.scan_url # ""
    THEN <<res.scan_url>>
    ELSE IF "scan_id" \in DOMAIN res /\ res.scan_id # ""
    THEN <<ConsoleBase, "/scans/", res.scan_id>>
    ELSE <<ConsoleBase>>

\* Faulty variant of ShouldUpload: the length is not tested.
ShouldUploadIfPresent(res) == "issues" \in DOMAIN res

\* result.issues && result.issues.length > 0
ShouldUpload(res) == "issues" \in DOMAIN res /\ Len(res.issues) > 0

\* issue => ({ruleId, message: {text}, level, locations: [...]}) (lines 207-217)
SarifResult(issue) ==
    [ruleId |-> issue.rule_id,
     message |-> [text |-> issue.message],
     level |-> issue.severity,
     locations |-> << [physicalLocation |->
                         [artifactLocation |-> [uri |-> issue.filename],
                          region |-> [startLine |-> issue.line]]] >>]

\* The report of lines 198-219.
Sarif(issues) ==
    [version |-> "2.1.0",
     runs |-> << [tool |-> [driver |-> [name |-> "Cortex Code Review", rules |-> <<>>]],
                  results |-> [i \in 1..Len(issues) |-> SarifResult(issues[i])]] >>]

\* zlib.gzipSync(JSON.stringify(x)).toString('base64'): the report, wrapped in
\* its two encodings.
GzipBase64(x) == [base64 |-> [gzip |-> [json |-> x]]]

\* The parameters of codeScanning.uploadSarif (lines 226-233).
UploadParams(res) ==
    [ref |-> <<"refs/heads/", repoData.default_branch>>,
     sarif |-> GzipBase64(Sarif(res.issues)),
     tool_name |-> "Cortex Code Review"]

\* await response.json(), then the console link and the test of line 197.
ResponseJson ==
    /\ pc = "response_json"
    /\ \/ \E e \in BodyErrors :
             /\ calls' = Append(calls, Call("response.json", e))
             /\ Throw(<<e>>)
             /\ UNCHANGED <<result, fullConsoleUrl>>
       \/ \E r \in Results :
             /\ calls' = Append(calls, Call("response.json", "ok"))
             /\ result' = r
             /\ fullConsoleUrl' = ConsoleLink(r)
             /\ pc' = IF ShouldUpload(r) THEN "upload_sarif" ELSE "write_completed"
             /\ error' = error
    /\ UNCHANGED <<inputs, triggerType, prNumber, branch, changedFiles, triggerUser,
                   repoData, ownerDetails, response,
                   summary, requests, uploads, failedWith, unhandled>>

\* await octokit.rest.codeScanning.uploadSarif (lines 198-234)
UploadSarif ==
    /\ pc = "upload_sarif"
    /\ uploads' = Append(uploads, UploadParams(result))
    /\ \E o \in {"ok"} \cup ApiErrors :
          /\ calls' = Append(calls, Call("codeScanning.uploadSarif", o))
          /\ IF o = "ok"
             THEN /\ pc' = "write_completed"
                  /\ error' = error
             ELSE Throw(<<o>>)
    /\ UNCHANGED <<inputs, locals, summary, requests, failedWith, unhandled>>

\* Faulty variant of CountOrZero: an absent count is rendered as 1.
CountOrOne(res, field) ==
    IF field \in DOMAIN res /\ res[field] # 0 THEN res[field] ELSE 1

\* x || 0 on a count: 0 when the field is absent (or 0).
CountOrZero(res, field) ==
    IF field \in DOMAIN res /\ res[field] # 0 THEN res[field] ELSE 0

\* The section of lines 239-261.
CompletedSection ==
    Merge([kind |-> "completed",
           critical |-> CountOrZero(result, "critical"),
           warnings |-> CountOrZero(result, "warnings"),
           suggestions |-> CountOrZero(result, "suggestions"),
           passed |-> CountOrZero(result, "passed"),
           link |-> fullConsoleUrl],
          ContextRows)

WriteCompleted ==
    /\ pc = "write_completed"
    /\ \E o \in {"ok"} \cup SummaryErrors :
          /\ calls' = Append(calls, Call("summary.write(completed)", o))
          /\ IF o = "ok"
             THEN /\ summary' = Append(summary, CompletedSection)
                  /\ pc' = "done"
                  /\ error' = error
             ELSE /\ Throw(<<o>>)
                  /\ summary' = summary
    /\ UNCHANGED <<inputs, locals, requests, uploads, failedWith, unhandled>>

(***************************************************************************)
(* The catch clause (lines 266-273).                                       *)
(***************************************************************************)
\* The section of lines 267-270.
FailedSection == [kind |-> "failed", error |-> error]

\* await core.summary...write(), then core.setFailed(error.message).  When the
\* write rejects, the rejection leaves the catch clause: setFailed is not
\* reached and the promise of run() rejects, which nothing handles (line 276).
Catch ==
    /\ pc = "catch"
    /\ \E o \in {"ok"} \cup SummaryErrors :
          /\ calls' = Append(calls, Call("summary.write(failed)", o))
          /\ IF o = "ok"
             THEN /\ summary' = Append(summary, FailedSection)
                  /\ failedWith' = error
                  /\ unhandled' = unhandled
             ELSE /\ unhandled' = <<o>>
                  /\ UNCHANGED <<summary, failedWith>>
    /\ pc' = "done"
    /\ UNCHANGED <<inputs, locals, error, requests, uploads>>

(***************************************************************************)
(* The run.                                                                *)
(***************************************************************************)
Next ==
    \/ Classify
    \/ PullsGet
    \/ ListFiles
    \/ GetActor
    \/ GetRepo
    \/ GetOrg
    \/ GetOwnerUser
    \/ WriteSubmitted
    \/ Fetch
    \/ ResponseText
    \/ ResponseJson
    \/ UploadSarif
    \/ WriteCompleted
    \/ Catch

Spec == Init /\ [][Next]_vars


(***************************************************************************)
(* Vocabulary of the properties.                                           *)
(***************************************************************************)
Done == pc = "done"

\* The positions in `calls` of the calls of `api`, and of those that returned.
CallsOf(api) == {i \in 1..Len(calls) : calls[i].api = api}
ReturnsOf(api) == {i \in CallsOf(api) : calls[i].outcome = "ok"}

Made(api) == CallsOf(api) # {}
Returned(api) == ReturnsOf(api) # {}
\* `api` returned before position i of `calls`.
ReturnedBefore(api, i) == \E j \in ReturnsOf(api) : j < i

\* The run was marked failed (core.setFailed was called).
MarkedFailed == failedWith # NoError

\* The sections of one kind written to the job summary.
Sections(kind) == {i \in 1..Len(summary) : summary[i].kind = kind}

\* The owner was resolved, by either lookup, before position i of `calls`.
OwnerResolvedBefore(i) ==
    ReturnedBefore("orgs.get", i) \/ ReturnedBefore("users.getByUsername(owner)", i)

\* All context gathering returned before position i of `calls`.
ContextGatheredBefore(i) ==
    /\ ReturnedBefore("pulls.listFiles", i)
    /\ ReturnedBefore("users.getByUsername(actor)", i)
    /\ ReturnedBefore("repos.get", i)
    /\ OwnerResolvedBefore(i)

(***************************************************************************)
(* C1.  During owner resolution the user lookup is a fallback for a        *)
(* not-found failure of the organization lookup only: after any other      *)
(* failure of orgs.get no user lookup of the owner is made, no backend     *)
(* request is issued and the run ends marked failed.                       *)
(* The code's `catch (e)` handles every failure alike, so this is violated.*)
(***************************************************************************)
C1_OnlyNotFoundFallsBack ==
    (\E i \in CallsOf("orgs.get") : calls[i].outcome \notin {"ok", "Not Found"})
    => /\ ~Made("users.getByUsername(owner)")
       /\ requests = <<>>
       /\ Done => MarkedFailed

(***************************************************************************)
(* C2.  Whatever stage raised the error, the run ends with a failure       *)
(* section holding the error message in the summary and is marked failed   *)
(* with that message.  Violated: when the write of the failure section     *)
(* itself rejects, setFailed is never reached.                             *)
(***************************************************************************)
C2_EveryErrorEndsFailed ==
    (Done /\ error # NoError)
    => /\ failedWith = error
       /\ \E i \in Sections("failed") : summary[i].error = error

(***************************************************************************)
(* C3.  The changed_files of every backend request, and the Files Changed  *)
(* count of every summary, cover every file the pull request changed, once *)
(* each, in the API's order.  Violated: a single listFiles call returns    *)
(* the first page only.                                                    *)
(***************************************************************************)
C3_AllChangedFilesSent ==
    /\ \A r \in 1..Len(requests) :
          /\ Len(requests[r].changed_files) = Len(prFiles)
          /\ \A k \in 1..Len(prFiles) :
                requests[r].changed_files[k].filename = prFiles[k].filename
    /\ \A i \in Sections("submitted") \cup Sections("completed") :
          summary[i].files_changed = Len(prFiles)

(***************************************************************************)
(* C4.  When the backend answered with a non-success status (and its body  *)
(* was read), the run ends marked failed with a message holding the status *)
(* code and the body, with a failure section in the summary, without a     *)
(* completed section and without a findings upload.  Violated through the  *)
(* defect of C2: the write of the failure section may reject.              *)
(***************************************************************************)
C4_BackendFailureFailsRun ==
    (Done /\ response # UndefinedObject /\ ~response.ok /\ Returned("response.text"))
    => /\ \E k \in 1..Len(failedWith) : failedWith[k] = ToString(response.status)
       /\ \E k \in 1..Len(failedWith) : failedWith[k] = response.body
       /\ Sections("failed") # {}
       /\ Sections("completed") = {}
       /\ uploads = <<>>


\* The report inside the parameters of an upload, decoded.
DecodedSarif(upload) == upload.sarif.base64.gzip.json

HasIssues == "issues" \in DOMAIN result /\ result.issues # <<>>

(***************************************************************************)
(* C5.  Once the backend result is parsed, the findings upload is          *)
(* attempted exactly when result.issues is a non-empty sequence, at most   *)
(* once, and the uploaded report then has one result entry per issue, the  *)
(* i-th carrying the i-th issue's rule id, message, severity, file name    *)
(* and line.                                                               *)
(***************************************************************************)
C5_UploadIffIssues ==
    /\ (result = UndefinedObject) => (uploads = <<>> /\ pc # "upload_sarif")
    /\ (result # UndefinedObject /\ HasIssues)
          => (pc = "upload_sarif" /\ uploads = <<>>) \/ Len(uploads) = 1
    /\ (result # UndefinedObject /\ ~HasIssues)
          => (pc # "upload_sarif" /\ uploads = <<>>)
    /\ Len(uploads) = Cardinality(CallsOf("codeScanning.uploadSarif"))
    /\ \A u \in 1..Len(uploads) :
          LET entries == DecodedSarif(uploads[u]).runs[1].results
          IN  /\ Len(DecodedSarif(uploads[u]).runs) = 1
              /\ Len(entries) = Len(result.issues)
              /\ \A i \in 1..Len(entries) :
                    /\ entries[i].ruleId = result.issues[i].rule_id
                    /\ entries[i].message.text = result.issues[i].message
                    /\ entries[i].level = result.issues[i].severity
                    /\ Len(entries[i].locations) = 1
                    /\ entries[i].locations[1].physicalLocation.artifactLocation.uri
                          = result.issues[i].filename
                    /\ entries[i].locations[1].physicalLocation.region.startLine
                          = result.issues[i].line

\* An upload of a report of two different issues was made.
C5_Witness ==
    /\ Made("codeScanning.uploadSarif")
    /\ Len(result.issues) = 2
    /\ result.issues[1] # result.issues[2]

IsTrigger == triggerType # Undefined

LookupsSucceeded ==
    /\ triggerType = "manual_comment" => Returned("pulls.get")
    /\ Returned("pulls.listFiles")
    /\ Returned("users.getByUsername(actor)")
    /\ Returned("repos.get")
    /\ Returned("orgs.get") \/ Returned("users.getByUsername(owner)")

AtMostOneRequestAfterContext ==
    /\ Len(requests) <= 1
    /\ Len(requests) = Cardinality(CallsOf("fetch"))
    /\ \A i \in CallsOf("fetch") : ContextGatheredBefore(i)

(***************************************************************************)
(* C6, as amended.  No run issues more than one backend request; a run     *)
(* that is classified as a trigger, whose context lookups all succeed and  *)
(* whose submitted summary is written, ends having issued exactly one; and *)
(* a request is issued only after the file listing, the actor lookup, the  *)
(* repository lookup and the owner resolution have returned.               *)
(***************************************************************************)
C6_SingleBackendRequest ==
    /\ AtMostOneRequestAfterContext
    /\ (Done /\ IsTrigger /\ LookupsSucceeded /\ Returned("summary.write(submitted)"))
          => Len(requests) = 1

\* A comment-triggered run whose owner is not an organization ended with its
\* one request issued.
C6_Witness ==
    /\ Done
    /\ triggerType = "manual_comment"
    /\ LookupsSucceeded
    /\ ~Returned("orgs.get")
    /\ Len(requests) = 1

(***************************************************************************)
(* C6, as claimed: exactly one request in every trigger run whose context  *)
(* lookups all succeed.  Violated: the write of the submitted summary      *)
(* stands between the lookups and the request, and may reject.             *)
(***************************************************************************)
C6_Original ==
    /\ AtMostOneRequestAfterContext
    /\ (Done /\ IsTrigger /\ LookupsSucceeded) => Len(requests) = 1

(***************************************************************************)
(* C7.  The summary is written in two phases in a fixed order: the         *)
(* submitted section after all context gathering and before the backend    *)
(* request; the completed section only after the backend answered with     *)
(* success and its result was parsed; and never a completed section        *)
(* without the submitted section written before it.                        *)
(***************************************************************************)
C7_TwoPhaseSummary ==
    /\ \A i \in CallsOf("summary.write(submitted)") :
          /\ ContextGatheredBefore(i)
          /\ \A j \in CallsOf("fetch") : i < j
    /\ \A j \in CallsOf("fetch") : ReturnedBefore("summary.write(submitted)", j)
    /\ \A k \in CallsOf("summary.write(completed)") :
          /\ ReturnedBefore("fetch", k)
          /\ ReturnedBefore("response.json", k)
          /\ response.ok
    /\ \A k \in Sections("completed") :
          /\ \E i \in Sections("submitted") : i < k
          /\ Returned("summary.write(completed)")
    /\ Cardinality(Sections("submitted")) <= 1
    /\ Cardinality(Sections("completed")) <= 1

\* Both sections were written, with a findings upload in between.
C7_Witness ==
    /\ Done
    /\ Sections("submitted") = {1}
    /\ Sections("completed") = {2}
    /\ Returned("codeScanning.uploadSarif")


NothingDone ==
    /\ pc \in {"start", "done"}
    /\ calls = <<>>
    /\ requests = <<>>
    /\ summary = <<>>
    /\ ~MarkedFailed
    /\ unhandled = NoError

(***************************************************************************)
(* C8.  For an event that is neither pull_request nor issue_comment,       *)
(* whatever its action and payload, the run goes from its start straight   *)
(* to its end: no external call, no backend request, no summary, and the   *)
(* run is neither marked failed nor rejected.                              *)
(***************************************************************************)
C8_UnhandledEventsSkipped ==
    (eventName \notin {"pull_request", "issue_comment"}) => NothingDone

\* A pull_request_review event with action "opened" and a pull-request payload
\* has ended.
C8_Witness ==
    /\ Done
    /\ eventName = "pull_request_review"
    /\ action = "opened"
    /\ "pull_request" \in DOMAIN payload

IsPlainIssueTriggerComment ==
    /\ eventName = "issue_comment"
    /\ action = "created"
    /\ "pull_request" \notin DOMAIN payload.issue
    /\ Includes(ToLowerCase(Trim(payload.comment.body)), TriggerPhrase)

(***************************************************************************)
(* C9.  For an issue_comment/created event whose comment holds the trigger *)
(* phrase but whose issue carries no pull-request marker, the run is       *)
(* skipped: no pull-request lookup (no call at all), no backend request,   *)
(* no failure summary, and the run is not marked failed.                   *)
(***************************************************************************)
C9_PlainIssueCommentSkipped ==
    IsPlainIssueTriggerComment => (NothingDone /\ triggerType = Undefined)

\* Such a run, for a comment in mixed case, has ended.
C9_Witness ==
    /\ Done
    /\ IsPlainIssueTriggerComment
    /\ payload.comment.body # ToLowerCase(payload.comment.body)

(***************************************************************************)
(* C10.  For a pull_request event with action closed and merged = false no *)
(* backend request is issued (the run is skipped); and a run has trigger   *)
(* type pr_merged only for a pull_request closed event with merged = true. *)
(***************************************************************************)
C10_ClosedUnmergedSkipped ==
    /\ (eventName = "pull_request" /\ action = "closed"
           /\ ~payload.pull_request.merged) => NothingDone
    /\ (triggerType = "pr_merged")
          => (eventName = "pull_request" /\ action = "closed"
              /\ payload.pull_request.merged)
    /\ (eventName = "pull_request" /\ action = "closed" /\ IsTrigger)
          => triggerType = "pr_merged"

\* The run for a closed, unmerged pull request has ended.
C10_Witness ==
    /\ Done
    /\ eventName = "pull_request"
    /\ action = "closed"
    /\ ~payload.pull_request.merged

\* The comment bodies that hold the trigger phrase once trimmed and lower-cased,
\* and those that do not.
BodiesWithPhrase ==
    {b \in CommentBodies : Includes(ToLowerCase(Trim(b)), TriggerPhrase)}
BodiesWithoutPhrase == CommentBodies \ BodiesWithPhrase

(***************************************************************************)
(* C11.  For an issue_comment event whose body, trimmed and lower-cased,   *)
(* does not contain "/cortex code review", no backend request is issued    *)
(* and the run is not marked failed: the run is skipped without any call.  *)
(***************************************************************************)
C11_CommentWithoutPhraseSkipped ==
    (eventName = "issue_comment" /\ payload.comment.body \in BodiesWithoutPhrase)
    => (NothingDone /\ triggerType = Undefined)

\* The run for a comment on a pull request whose phrase is broken by a second
\* blank has ended.
C11_Witness ==
    /\ Done
    /\ eventName = "issue_comment"
    /\ action = "created"
    /\ "pull_request" \in DOMAIN payload.issue
    /\ payload.comment.body \in BodiesWithoutPhrase
    /\ Includes(payload.comment.body, SubSeq(TriggerPhrase, 1, 7))

\* The fields both owner variants have, and those only one of them has.
SharedOwnerFields ==
    {"type", "login", "name", "email", "avatar_url", "profile_url",
     "location", "blog", "public_repos", "created_at"}
OrganizationOnlyFields == {"description"}
IndividualOnlyFields == {"company", "bio"}

\* The owner profile is the organization variant, or the individual variant
\* tagged `tag`.
IsOrganizationProfile(p) ==
    /\ p.type = "organization"
    /\ DOMAIN p = SharedOwnerFields \cup OrganizationOnlyFields
IsIndividualProfile(p, tag) ==
    /\ p.type = tag
    /\ DOMAIN p = SharedOwnerFields \cup IndividualOnlyFields

\* Once resolved, the owner profile (and the owner of every backend request)
\* is the organization variant when orgs.get returned, and otherwise the
\* individual variant tagged `tag`, resolved by the user lookup.
OwnerVariantTagged(tag) ==
    /\ (ownerDetails # UndefinedObject) =>
          IF Returned("orgs.get")
          THEN /\ IsOrganizationProfile(ownerDetails)
               /\ ~Made("users.getByUsername(owner)")
          ELSE /\ IsIndividualProfile(ownerDetails, tag)
               /\ Returned("users.getByUsername(owner)")
    /\ (pc \in {"write_submitted", "fetch"}) => ownerDetails # UndefinedObject
    /\ \A r \in 1..Len(requests) : requests[r].owner = ownerDetails

ExpectedBase ==
    IF consoleUrl = "" THEN "https://console.pervaziv.com" ELSE consoleUrl

\* The link the strict priority scan_url, scan_id, bare base selects.
ExpectedLink ==
    CASE "scan_url" \in DOMAIN result -> <<result.scan_url>>
      [] "scan_url" \notin DOMAIN result /\ "scan_id" \in DOMAIN result
            -> <<ExpectedBase, "/scans/", result.scan_id>>
      [] OTHER -> <<ExpectedBase>>

(***************************************************************************)
(* C13.  The console link of the completed summary is the result's         *)
(* scan_url verbatim when it has one; otherwise the console base followed  *)
(* by "/scans/" and the scan_id when it has one; otherwise the bare        *)
(* console base, which is the hardcoded default when console-url is not    *)
(* configured.                                                             *)
(***************************************************************************)
C13_ConsoleLinkPriority ==
    /\ \A k \in Sections("completed") : summary[k].link = ExpectedLink
    /\ (pc \in {"upload_sarif", "write_completed"}) => fullConsoleUrl = ExpectedLink

\* A completed summary was written for a result with a scan_id and no scan_url,
\* with no console-url configured.
C13_Witness ==
    /\ Sections("completed") # {}
    /\ "scan_id" \in DOMAIN result
    /\ "scan_url" \notin DOMAIN result
    /\ consoleUrl = ""
    /\ summary[Len(summary)].link = <<"https://console.pervaziv.com", "/scans/", "s1">>

\* The lookups whose failure aborts the run, and all lookups.
AbortingLookups ==
    {"pulls.get", "pulls.listFiles", "users.getByUsername(actor)", "repos.get",
     "users.getByUsername(owner)"}
AllLookups == AbortingLookups \cup {"orgs.get"}

\* The positions in `calls` of the aborting lookups that rejected.
FailedLookups ==
    {i \in 1..Len(calls) : calls[i].api \in AbortingLookups /\ calls[i].outcome # "ok"}

\* After a failed lookup nothing but the catch clause runs.
AbortedAfterFailedLookup ==
    \A i \in FailedLookups :
       /\ \A j \in (i + 1)..Len(calls) : calls[j].api = "summary.write(failed)"
       /\ pc \in {"catch", "done"}
       /\ Sections("submitted") = {}
       /\ requests = <<>>
       /\ uploads = <<>>

(***************************************************************************)
(* C14.  When the pull-request lookup, the file listing, the actor lookup, *)
(* the repository lookup or the user lookup of the owner fallback fails,   *)
(* the run is aborted there: no later lookup, no submitted summary, no     *)
(* backend request, no findings upload, and the run ends marked failed.    *)
(* Violated through the defect of C2: the catch clause's own summary write *)
(* may reject, and then the run is not marked failed.                      *)
(***************************************************************************)
C14_LookupFailureAbortsRun ==
    /\ AbortedAfterFailedLookup
    /\ (Done /\ FailedLookups # {}) => MarkedFailed

\* The classification of the inbound event, read off the event alone.
ExpectedTrigger ==
    CASE eventName = "pull_request" /\ action = "opened" -> "pr_opened"
      [] eventName = "pull_request" /\ action = "closed"
            /\ payload.pull_request.merged -> "pr_merged"
      [] eventName = "issue_comment" /\ action = "created"
            /\ payload.comment.body \in BodiesWithPhrase
            /\ "pull_request" \in DOMAIN payload.issue -> "manual_comment"
      [] OTHER -> Undefined

\* The pull-request number the event names.
ExpectedPrNumber ==
    IF eventName = "issue_comment"
    THEN payload.issue.number
    ELSE payload.pull_request.number

(***************************************************************************)
(* C15.  Once classified, the run's trigger type is exactly the            *)
(* classification of the inbound event: pr_opened iff (pull_request,       *)
(* opened); pr_merged iff (pull_request, closed, merged); manual_comment   *)
(* iff (issue_comment, created, body trimmed and lower-cased contains the  *)
(* phrase, issue is a pull request), whatever the surrounding white space  *)
(* and the case of the comment; every other event is not a trigger.  Every *)
(* backend request carries that trigger type, and as pr_number the         *)
(* payload's pull-request number (the issue number for manual_comment).    *)
(***************************************************************************)
C15_TriggerTypeIsClassification ==
    /\ (pc # "start") => triggerType = ExpectedTrigger
    /\ (pc # "start" /\ IsTrigger) => prNumber = ExpectedPrNumber
    /\ \A r \in 1..Len(requests) :
          /\ requests[r].trigger_type = ExpectedTrigger
          /\ requests[r].trigger_type \in {"pr_opened", "pr_merged", "manual_comment"}
          /\ requests[r].pr_number = ToString(ExpectedPrNumber)

\* A request was issued for a comment in mixed case; it carries the issue number.
C15_Witness ==
    /\ Len(requests) = 1
    /\ requests[1].trigger_type = "manual_comment"
    /\ requests[1].pr_number = "12"
    /\ payload.comment.body # ToLowerCase(payload.comment.body)

CountFields == {"critical", "warnings", "suggestions", "passed"}

\* The positions in `calls` of the calls that rejected.
RejectedCalls == {i \in 1..Len(calls) : calls[i].outcome # "ok"}

(***************************************************************************)
(* C16.  In the completed summary each of critical, warnings, suggestions  *)
(* and passed shows the result's value, and 0 when the result lacks the    *)
(* field; a lacking field never fails the run: after the result is parsed  *)
(* the run fails only with the rejection of a later call (the upload or    *)
(* the summary write), and without one the completed summary is written.   *)
(***************************************************************************)
C16_AbsentCountsAreZero ==
    /\ \A k \in Sections("completed") : \A f \in CountFields :
          summary[k][f] = IF f \in DOMAIN result THEN result[f] ELSE 0
    /\ (result # UndefinedObject /\ error # NoError) =>
          \E i \in RejectedCalls :
             /\ calls[i].api \in {"codeScanning.uploadSarif", "summary.write(completed)"}
             /\ error = <<calls[i].outcome>>
    /\ (Done /\ result # UndefinedObject /\ RejectedCalls = {}) =>
          (Sections("completed") # {} /\ ~MarkedFailed)

\* A run whose result has none of the four counts ended with its completed
\* summary written and is not marked failed.
C16_Witness ==
    /\ Done
    /\ result # UndefinedObject
    /\ CountFields \cap DOMAIN result = {}
    /\ Sections("completed") # {}
    /\ ~MarkedFailed

\* The file listing is about to be called, or has been.
AtOrPastFileListing == pc = "list_files" \/ Made("pulls.listFiles")

(***************************************************************************)
(* C17.  Whenever the file listing is called, trigger type, pull-request   *)
(* number and branch are all resolved.  For manual_comment the branch is   *)
(* the head branch answered by a pull-request lookup that returned before  *)
(* the file listing; that lookup is made at most once and only for         *)
(* manual_comment, and for the other triggers the file listing is the      *)
(* first call of the run.                                                  *)
(***************************************************************************)
C17_TriggerResolvedBeforeFetch ==
    /\ AtOrPastFileListing =>
          /\ triggerType \in {"pr_opened", "pr_merged", "manual_comment"}
          /\ prNumber # UndefinedNumber
          /\ branch # Undefined
    /\ (AtOrPastFileListing /\ triggerType = "manual_comment") =>
          /\ Returned("pulls.get")
          /\ \A i \in CallsOf("pulls.listFiles") : ReturnedBefore("pulls.get", i)
          /\ branch = PullData.head.ref
    /\ Cardinality(CallsOf("pulls.get")) <= 1
    /\ Cardinality(CallsOf("pulls.listFiles")) <= 1
    /\ Made("pulls.get") => (triggerType = "manual_comment" /\ CallsOf("pulls.get") = {1})
    /\ (triggerType # "manual_comment") => CallsOf("pulls.listFiles") \subseteq {1}

\* The file listing was called in a comment-triggered run.
C17_Witness ==
    /\ triggerType = "manual_comment"
    /\ CallsOf("pulls.get") = {1}
    /\ CallsOf("pulls.listFiles") = {2}
    /\ branch = "feature"

\* The three outcomes of a run.
Skipped == calls = <<>> /\ summary = <<>> /\ ~MarkedFailed
Completed == Sections("completed") # {} /\ ~MarkedFailed
Failed == MarkedFailed

\* No run is both marked failed and given a completed summary.
NeverFailedAndCompleted == ~(MarkedFailed /\ Sections("completed") # {})

(***************************************************************************)
(* C18.  Every run ends in exactly one of three outcomes: skipped (no call *)
(* after classification, no summary, not marked failed), completed         *)
(* (completed summary written, not marked failed) or failed (marked        *)
(* failed); never both marked failed and given a completed summary.        *)
(* Violated through the defect of C2: a run whose catch clause's summary   *)
(* write rejects has made calls, has no completed summary and is not       *)
(* marked failed, so it ends in none of the three.                         *)
(***************************************************************************)
C18_ExactlyOneOutcome ==
    /\ NeverFailedAndCompleted
    /\ Done => Cardinality({o \in {"skipped", "completed", "failed"} :
                               \/ o = "skipped" /\ Skipped
                               \/ o = "completed" /\ Completed
                               \/ o = "failed" /\ Failed}) = 1

\* The positions in `calls` of the findings uploads that rejected.
RejectedUploads ==
    {u \in CallsOf("codeScanning.uploadSarif") : calls[u].outcome # "ok"}

\* A findings upload comes after the parsed backend response and before the
\* write of the completed summary, which is not made after a rejected upload.
UploadBetweenResponseAndCompleted ==
    /\ \A u \in CallsOf("codeScanning.uploadSarif") :
          /\ ReturnedBefore("fetch", u)
          /\ ReturnedBefore("response.json", u)
          /\ \A k \in CallsOf("summary.write(completed)") : u < k
    /\ (RejectedUploads # {}) =>
          (~Made("summary.write(completed)") /\ Sections("completed") = {})

(***************************************************************************)
(* C19.  A findings upload happens after the backend response and before   *)
(* the completed summary is written; when the upload fails the completed   *)
(* summary is not written and the failure is not dropped: the run ends     *)
(* marked failed with the upload's error, which is in a failure summary.   *)
(* Violated through the defect of C2: when the catch clause's summary      *)
(* write rejects, the upload's error reaches neither the summary nor       *)
(* setFailed.                                                              *)
(***************************************************************************)
C19_UploadFailureFailsRun ==
    /\ UploadBetweenResponseAndCompleted
    /\ \A u \in RejectedUploads :
          Done => /\ failedWith = <<calls[u].outcome>>
                  /\ \E k \in Sections("failed") : summary[k].error = <<calls[u].outcome>>

====
